---------------------------- MODULE Spec2Model ----------------------------
(***************************************************************************)
(* find_replace_all_console_logs.py: process_file rewrites console.log,    *)
(* console.error and console.warn calls of a TypeScript file to logger     *)
(* calls and inserts a logger import; main runs it over four fixed paths.  *)
(*                                                                         *)
(* A text is a sequence of tokens.  A token stands for a run of characters *)
(* that the script's patterns treat as a unit: the literals of the regular *)
(* expressions ("console", ".log", "(", ...), the delimiters their         *)
(* character classes name, the newline that "." refuses, and filler.       *)
(***************************************************************************)
EXTENDS Integers, Sequences, FiniteSets, TLC

\* ------------------------------------------------------------ tokens
DQ == "\""
SQ == "'"
BT == "<backtick>"
LP == "("
RP == ")"
NL == "\n"
SP == " "

\* F of the value of v, with v evaluated once (TLC evaluates a definition's
\* uses of a LET or of a parameter one by one where it cannot keep the value)
Let(v, F(_)) == CHOOSE r \in {F(a) : a \in {v}} : TRUE

\* ------------------------------------------------------------ strings
\* sub in text (Python: sub in text), at position i
OccursAt(text, sub, i) ==
    /\ i + Len(sub) - 1 <= Len(text)
    /\ \A j \in 1..Len(sub) : text[i + j - 1] = sub[j]

Contains(text, sub) ==
    \E i \in 1..(Len(text) - Len(sub) + 1) : OccursAt(text, sub, i)

\* str.replace(old, new): every non-overlapping occurrence, left to right
RECURSIVE ReplaceFrom(_, _, _, _)
ReplaceFrom(text, old, new, i) ==
    IF i > Len(text) THEN <<>>
    ELSE IF OccursAt(text, old, i)
         THEN new \o ReplaceFrom(text, old, new, i + Len(old))
         ELSE <<text[i]>> \o ReplaceFrom(text, old, new, i + 1)

StrReplace(text, old, new) == ReplaceFrom(text, old, new, 1)

\* ------------------------------------------------------------ regular expressions
\* Pattern elements, over tokens.
Lit(c)      == [kind |-> "lit",    set |-> {c}, min |-> 1]   \* a literal
OneOf(S)    == [kind |-> "lit",    set |-> S,   min |-> 1]   \* [..]
StarNot(c)  == [kind |-> "greedy", set |-> {c}, min |-> 0]   \* [^c]*
PlusNot(c)  == [kind |-> "greedy", set |-> {c}, min |-> 1]   \* [^c]+
LazyDot     == [kind |-> "lazy",   set |-> {NL}, min |-> 0]  \* .*?

NoMatch == <<-1>>

\* the number of tokens from position i on that are not in S
RECURSIVE Run(_, _, _)
Run(t, S, i) ==
    IF i > Len(t) \/ t[i] \in S THEN 0 ELSE 1 + Run(t, S, i + 1)

\* A backtracking match of elements k.. of a pattern at position i of t: the
\* position after each element, or NoMatch.  A greedy element tries its longest
\* run first, a lazy one its shortest.
RECURSIVE MatchFrom(_, _, _, _), TryLen(_, _, _, _, _, _, _)
MatchFrom(elems, t, k, i) ==
    IF k > Len(elems) THEN <<>>
    ELSE LET e == elems[k] IN
         CASE e.kind = "lit" ->
                IF i <= Len(t) /\ t[i] \in e.set
                THEN Let(MatchFrom(elems, t, k + 1, i + 1),
                         LAMBDA r : IF r = NoMatch THEN NoMatch ELSE <<i + 1>> \o r)
                ELSE NoMatch
           [] e.kind = "greedy" ->
                Let(Run(t, e.set, i), LAMBDA max : TryLen(elems, t, k, i, max, max, -1))
           [] e.kind = "lazy" ->
                Let(Run(t, e.set, i), LAMBDA max : TryLen(elems, t, k, i, max, 0, 1))

\* element k takes n of the max tokens it may; on failure of the rest, n moves
\* by step
TryLen(elems, t, k, i, max, n, step) ==
    IF n < elems[k].min \/ n > max THEN NoMatch
    ELSE Let(MatchFrom(elems, t, k + 1, i + n),
             LAMBDA r : IF r # NoMatch THEN <<i + n>> \o r
                        ELSE TryLen(elems, t, k, i, max, n + step, step))

\* re.finditer: the non-overlapping matches, leftmost first.  Every pattern of the
\* script starts with a literal, so a match starts where that literal stands.
RECURSIVE FindSpans(_, _, _)
FindSpans(elems, t, i) ==
    LET starts == {j \in i..Len(t) : t[j] \in elems[1].set} IN
    IF starts = {} THEN <<>>
    ELSE Let(CHOOSE a \in starts : \A b \in starts : a <= b,
             LAMBDA j :
                Let(MatchFrom(elems, t, 1, j),
                    LAMBDA m :
                       IF m = NoMatch THEN FindSpans(elems, t, j + 1)
                       ELSE <<[start |-> j, ends |-> m]>>
                            \o FindSpans(elems, t, m[Len(m)])))

SpanEnd(s) == s.ends[Len(s.ends)]
SpanText(t, s) == SubSeq(t, s.start, SpanEnd(s) - 1)

\* the text element e of the pattern matched in span s
ElemText(t, s, e) ==
    SubSeq(t, IF e = 1 THEN s.start ELSE s.ends[e - 1], s.ends[e] - 1)

\* A replacement template: tokens and group references.
T(c) == [grp |-> 0, tok |-> c]
G(n) == [grp |-> n, tok |-> ""]

RECURSIVE Expand(_, _, _, _, _)
Expand(repl, groups, t, s, j) ==
    IF j > Len(repl) THEN <<>>
    ELSE (IF repl[j].grp = 0 THEN <<repl[j].tok>>
          ELSE ElemText(t, s, groups[repl[j].grp]))
         \o Expand(repl, groups, t, s, j + 1)

\* re.sub(pattern, replacement, t)
RECURSIVE SubFrom(_, _, _, _, _)
SubFrom(rule, t, spans, n, pos) ==
    IF n > Len(spans) THEN SubSeq(t, pos, Len(t))
    ELSE SubSeq(t, pos, spans[n].start - 1)
         \o Expand(rule.repl, rule.groups, t, spans[n], 1)
         \o SubFrom(rule, t, spans, n + 1, SpanEnd(spans[n]))

ReSub(rule, t) ==
    Let(FindSpans(rule.pat, t, 1), LAMBDA spans : SubFrom(rule, t, spans, 1, 1))

\* len(re.findall(pattern, t))
ReCount(rule, t) == Len(FindSpans(rule.pat, t, 1))

\* ------------------------------------------------------------ paths
\* A path is a sequence of tokens too: "CallFunction/" is <<"Call", "Function", "/">>.
FunctionNode == <<"nodes", "/", "Function", "/", "Function", ".node.ts">>
CallFunctionNode ==
    <<"nodes", "/", "Call", "Function", "/", "Call", "Function", ".node.ts">>
ReturnFromFunctionNode ==
    <<"nodes", "/", "ReturnFrom", "Function", "/", "ReturnFrom", "Function", ".node.ts">>
ConfigureFunctionsNode ==
    <<"nodes", "/", "Configure", "Function", "s", "/",
      "Configure", "Function", "s", ".node.ts">>

files_to_process ==
    <<FunctionNode, CallFunctionNode, ReturnFromFunctionNode, ConfigureFunctionsNode>>

\* two paths main never visits, for calls of process_file on their own
NodesFunctionFoo == <<"nodes", "/", "Function", "/", "foo.ts">>
NodesFoo == <<"nodes", "/", "foo.ts">>

\* without "Function/"
SubdirsNoFunction ==
    { <<"Call", "Function", "/">>,
      <<"ReturnFrom", "Function", "/">>,
      <<"Configure", "Function", "s", "/">> }

Subdirs ==
    { <<"Function", "/">>,
      <<"Call", "Function", "/">>,
      <<"ReturnFrom", "Function", "/">>,
      <<"Configure", "Function", "s", "/">> }

\* ------------------------------------------------------------ the logger import
ImportHere ==
    <<"import", SP, "{ functionRegistryLogger as logger }", SP,
      "from", SP, DQ, "./Logger", DQ>>
ImportUp ==
    <<"import", SP, "{ functionRegistryLogger as logger }", SP,
      "from", SP, DQ, "../Logger", DQ>>

MarkerHere == <<"from", SP, DQ, "./Logger", DQ>>
MarkerUp   == <<"from", SP, DQ, "../Logger", DQ>>

\* checks one of the two markers only
has_logger_import_here(content) == Contains(content, MarkerHere)

has_logger_import(content) ==
    Contains(content, MarkerHere) \/ Contains(content, MarkerUp)

DirectlyInNodes(file_path) ==
    /\ Contains(file_path, <<"nodes", "/">>)
    /\ ~ \E subdir \in Subdirs : Contains(file_path, subdir)

import_line_for(file_path) ==
    IF DirectlyInNodes(file_path) THEN ImportHere ELSE ImportUp

\* (import.*?from.*?["'].*?["'])
import_pattern ==
    <<Lit("import"), LazyDot, Lit("from"), LazyDot,
      OneOf({DQ, SQ}), LazyDot, OneOf({DQ, SQ})>>

\* re.findall(import_pattern, content): the matched texts
imports_of(content) ==
    Let(FindSpans(import_pattern, content, 1),
        LAMBDA spans : [n \in 1..Len(spans) |-> SpanText(content, spans[n])])

\* content.replace(last_import, f"{last_import}\n{import_line}")
InsertAfter(content, last_import, import_line) ==
    Let(last_import \o <<NL>> \o import_line,
        LAMBDA new : StrReplace(content, last_import, new))

\* whether the import step adds the import to this content
AddsImport(content) ==
    ~ has_logger_import(content) /\ imports_of(content) # <<>>

\* puts the import on top of a content without import statements
WithImportOnTop(content, file_path) ==
    IF has_logger_import(content) THEN content
    ELSE IF imports_of(content) = <<>>
         THEN import_line_for(file_path) \o <<NL>> \o content
         ELSE Let(imports_of(content),
                  LAMBDA imports :
                     InsertAfter(content, imports[Len(imports)], import_line_for(file_path)))

\* the content after the import step
WithImport(content, file_path) ==
    IF AddsImport(content)
    THEN Let(imports_of(content),
             LAMBDA imports :
                Let(imports[Len(imports)],
                    LAMBDA last_import :
                       InsertAfter(content, last_import, import_line_for(file_path))))
    ELSE content

\* ------------------------------------------------------------ the rules
\* console\.log\(`([^`]*)`\)  ->  logger.log(`\1`)
log_template ==
    [pat    |-> <<Lit("console"), Lit(".log"), Lit(LP), Lit(BT), StarNot(BT), Lit(BT), Lit(RP)>>,
     groups |-> <<5>>,
     repl   |-> <<T("logger"), T(".log"), T(LP), T(BT), G(1), T(BT), T(RP)>>]

\* console\.log\("([^"]*)"\)  ->  logger.log("\1")
log_double ==
    [pat    |-> <<Lit("console"), Lit(".log"), Lit(LP), Lit(DQ), StarNot(DQ), Lit(DQ), Lit(RP)>>,
     groups |-> <<5>>,
     repl   |-> <<T("logger"), T(".log"), T(LP), T(DQ), G(1), T(DQ), T(RP)>>]

\* console\.log\('([^']*)'\)  ->  logger.log('\1')
log_single ==
    [pat    |-> <<Lit("console"), Lit(".log"), Lit(LP), Lit(SQ), StarNot(SQ), Lit(SQ), Lit(RP)>>,
     groups |-> <<5>>,
     repl   |-> <<T("logger"), T(".log"), T(LP), T(SQ), G(1), T(SQ), T(RP)>>]

\* console\.log\(([^)]+)\)  ->  logger.log(\1)
log_expr ==
    [pat    |-> <<Lit("console"), Lit(".log"), Lit(LP), PlusNot(RP), Lit(RP)>>,
     groups |-> <<4>>,
     repl   |-> <<T("logger"), T(".log"), T(LP), G(1), T(RP)>>]

\* drops what follows the template literal
error_template_no_tail ==
    [pat    |-> <<Lit("console"), Lit(".error"), Lit(LP), Lit(BT), StarNot(BT), Lit(BT),
                  StarNot(RP), Lit(RP)>>,
     groups |-> <<5, 7>>,
     repl   |-> <<T("logger"), T(".error"), T(LP), T(BT), G(1), T(BT), T(RP)>>]

\* console\.error\(`([^`]*)`([^)]*)\)  ->  logger.error(`\1`\2)
error_template ==
    [pat    |-> <<Lit("console"), Lit(".error"), Lit(LP), Lit(BT), StarNot(BT), Lit(BT),
                  StarNot(RP), Lit(RP)>>,
     groups |-> <<5, 7>>,
     repl   |-> <<T("logger"), T(".error"), T(LP), T(BT), G(1), T(BT), G(2), T(RP)>>]

\* console\.error\("([^"]*)"\)  ->  logger.error("\1")
error_double ==
    [pat    |-> <<Lit("console"), Lit(".error"), Lit(LP), Lit(DQ), StarNot(DQ), Lit(DQ), Lit(RP)>>,
     groups |-> <<5>>,
     repl   |-> <<T("logger"), T(".error"), T(LP), T(DQ), G(1), T(DQ), T(RP)>>]

\* console\.error\('([^']*)'\)  ->  logger.error('\1')
error_single ==
    [pat    |-> <<Lit("console"), Lit(".error"), Lit(LP), Lit(SQ), StarNot(SQ), Lit(SQ), Lit(RP)>>,
     groups |-> <<5>>,
     repl   |-> <<T("logger"), T(".error"), T(LP), T(SQ), G(1), T(SQ), T(RP)>>]

\* console\.error\(([^)]+)\)  ->  logger.error(\1)
error_expr ==
    [pat    |-> <<Lit("console"), Lit(".error"), Lit(LP), PlusNot(RP), Lit(RP)>>,
     groups |-> <<4>>,
     repl   |-> <<T("logger"), T(".error"), T(LP), G(1), T(RP)>>]

\* console\.warn\(`([^`]*)`([^)]*)\)  ->  logger.warn(`\1`\2)
warn_template ==
    [pat    |-> <<Lit("console"), Lit(".warn"), Lit(LP), Lit(BT), StarNot(BT), Lit(BT),
                  StarNot(RP), Lit(RP)>>,
     groups |-> <<5, 7>>,
     repl   |-> <<T("logger"), T(".warn"), T(LP), T(BT), G(1), T(BT), G(2), T(RP)>>]

\* console\.warn\("([^"]*)"\)  ->  logger.warn("\1")
warn_double ==
    [pat    |-> <<Lit("console"), Lit(".warn"), Lit(LP), Lit(DQ), StarNot(DQ), Lit(DQ), Lit(RP)>>,
     groups |-> <<5>>,
     repl   |-> <<T("logger"), T(".warn"), T(LP), T(DQ), G(1), T(DQ), T(RP)>>]

\* console\.warn\('([^']*)'\)  ->  logger.warn('\1')
warn_single ==
    [pat    |-> <<Lit("console"), Lit(".warn"), Lit(LP), Lit(SQ), StarNot(SQ), Lit(SQ), Lit(RP)>>,
     groups |-> <<5>>,
     repl   |-> <<T("logger"), T(".warn"), T(LP), T(SQ), G(1), T(SQ), T(RP)>>]

\* console\.warn\(([^)]+)\)  ->  logger.warn(\1)
warn_expr ==
    [pat    |-> <<Lit("console"), Lit(".warn"), Lit(LP), PlusNot(RP), Lit(RP)>>,
     groups |-> <<4>>,
     repl   |-> <<T("logger"), T(".warn"), T(LP), G(1), T(RP)>>]

patterns ==
    <<log_template, log_double, log_single, log_expr,
      error_template, error_double, error_single, error_expr,
      warn_template, warn_double, warn_single, warn_expr>>

\* line 76: new_content = re.sub(pattern, replacement, content)
RuleText(n, content) == ReSub(patterns[n], content)

\* counts a rule that matched once, however often it did
RuleCountOnce(n, content, new_content) ==
    IF new_content # content THEN 1 ELSE 0

\* lines 77-79: the matches rule n adds to changes_made
RuleCount(n, content, new_content) ==
    IF new_content # content THEN ReCount(patterns[n], content) ELSE 0

\* writes the file back whatever the content
ChangedAlways(content, original_content) == TRUE

\* whether process_file writes the file back
Changed(content, original_content) == content # original_content

\* ------------------------------------------------------------ input texts
Methods == {".log", ".error", ".warn"}
Quotes == {BT, DQ, SQ}

Call(m, args) == <<"console", m, LP>> \o args \o <<RP>>

Fragments ==
    { <<"x">>,
      <<"import", SP, "x", SP, "from", SP, DQ, "x", DQ, NL>>,
      <<"import", SP, "x", SP, "from", SP, SQ, "x", SQ, NL>>,
      ImportHere \o <<NL>>,
      ImportUp \o <<NL>>,
      Call(".error", <<BT, "x", BT, "x">>),
      Call(".log", Call(".log", <<"x">>)),
      Call(".log", <<>>),
      Call(".log", <<"x", LP, "x", RP>>) }
    \cup { Call(m, <<q, "x", q>>) : m \in Methods, q \in Quotes }
    \cup { Call(m, <<"x">>) : m \in Methods }

MaxFrags == 2

RECURSIVE TextsOf(_)
TextsOf(n) ==
    IF n = 0 THEN {<<>>}
    ELSE LET shorter == TextsOf(n - 1)
         IN  shorter \cup { t \o f : t \in shorter, f \in Fragments }

Texts == TextsOf(MaxFrags)

MaxRuns == 2

\* the paths process_file is called with on its own
DirectPaths == {NodesFunctionFoo, NodesFoo}

\* what the four files hold when main runs
MainTexts ==
    { <<"x">>,
      <<"import", SP, "x", SP, "from", SP, DQ, "x", DQ, NL>> \o Call(".log", <<DQ, "x", DQ>>),
      ImportUp \o <<NL>> \o Call(".warn", <<"x">>) \o Call(".warn", <<"x">>) }

\* ------------------------------------------------------------ state
VARIABLES
    fs,                \* the file system: the text of each path that exists
    caller,            \* "direct": process_file called on its own; "main": by main
    pc,                \* "idle", "open", "import", "rules", "persist", "returned", "done"
    file_path, content, original_content, changes_made,   \* process_file's locals
    import_line,       \* the import line chosen, <<>> while none is
    ri,                \* the index of the rule the loop is at
    ret,               \* process_file's return value
    idx, total_changes,    \* main's loop index and total
    summary,           \* the total main printed, -1 before
    \* history
    fs0,               \* the file system at the start
    runs,              \* calls of process_file that returned
    inserted,          \* this call added the import
    after_import,      \* the content after this call's import step
    wrote,             \* this call wrote the file
    first_out,         \* the content the first call ended with
    processed,         \* the paths process_file was called with, in order
    not_found,         \* the paths main reported missing, in order
    returns            \* the values process_file returned, in order

vars == <<fs, caller, pc, file_path, content, original_content, changes_made,
          import_line, ri, ret, idx, total_changes, summary, fs0, runs, inserted,
          after_import, wrote, first_out, processed, not_found, returns>>

locals == <<file_path, content, original_content, changes_made, import_line, ri, ret>>
mainVars == <<idx, total_changes, summary, not_found>>
callHistory == <<inserted, after_import, wrote, first_out>>

InitRest ==
    /\ pc = "idle"
    /\ file_path = <<>> /\ content = <<>> /\ original_content = <<>>
    /\ changes_made = 0 /\ import_line = <<>> /\ ri = 1 /\ ret = 0
    /\ idx = 1 /\ total_changes = 0 /\ summary = -1
    /\ fs0 = fs /\ runs = 0 /\ inserted = FALSE /\ after_import = <<>>
    /\ wrote = FALSE /\ first_out = <<>>
    /\ processed = <<>> /\ not_found = <<>> /\ returns = <<>>

\* one file of any text, at any of the direct paths
Init ==
    /\ caller = "direct"
    /\ \E p \in DirectPaths, t \in Texts : fs = [q \in {p} |-> t]
    /\ InitRest

\* each of main's four files missing, or holding one of MainTexts
InitMain ==
    /\ caller = "main"
    /\ \E exist \in SUBSET {files_to_process[n] : n \in 1..Len(files_to_process)} :
          fs \in [exist -> MainTexts]
    /\ InitRest

\* ------------------------------------------------------------ process_file
\* a call of process_file on the file that exists (on a path that does not,
\* open raises FileNotFoundError: main guards against it, line 106)
DirectCall ==
    /\ caller = "direct" /\ pc \in {"idle", "returned"} /\ runs < MaxRuns
    /\ \E p \in DOMAIN fs : file_path' = p
    /\ pc' = "open"
    /\ UNCHANGED <<fs, caller, content, original_content, changes_made, import_line,
                   ri, ret, mainVars, fs0, runs, callHistory, processed, returns>>

\* lines 12-18: read the file
Open ==
    /\ pc = "open"
    /\ content' = fs[file_path]
    /\ original_content' = fs[file_path]
    /\ changes_made' = 0
    /\ import_line' = <<>>
    /\ inserted' = FALSE /\ wrote' = FALSE /\ after_import' = <<>>
    /\ processed' = Append(processed, file_path)
    /\ pc' = "import"
    /\ UNCHANGED <<fs, caller, file_path, ri, ret, mainVars, fs0, runs, first_out, returns>>

\* lines 20-48: add the logger import unless the content has one
AddImport ==
    /\ pc = "import"
    /\ import_line' = IF has_logger_import(content) THEN <<>> ELSE import_line_for(file_path)
    /\ content' = WithImport(content, file_path)
    /\ changes_made' = changes_made + (IF AddsImport(content) THEN 1 ELSE 0)
    /\ inserted' = AddsImport(content)
    /\ after_import' = content'
    /\ ri' = 1
    /\ pc' = "rules"
    /\ UNCHANGED <<fs, caller, file_path, original_content, ret, mainVars, fs0, runs,
                   wrote, first_out, processed, returns>>

\* lines 75-81: one pass of the loop over the rules
ApplyRule ==
    /\ pc = "rules"
    /\ \E new_content \in {RuleText(ri, content)} :
          /\ content' = new_content
          /\ changes_made' = changes_made + RuleCount(ri, content, new_content)
    /\ ri' = ri + 1
    /\ pc' = IF ri = Len(patterns) THEN "persist" ELSE "rules"
    /\ UNCHANGED <<fs, caller, file_path, original_content, import_line, ret, mainVars,
                   fs0, runs, callHistory, processed, returns>>

\* lines 83-91: write the file back if the content changed, and return
Persist ==
    /\ pc = "persist"
    /\ IF Changed(content, original_content)
       THEN /\ fs' = [fs EXCEPT ![file_path] = content]
            /\ wrote' = TRUE
            /\ ret' = changes_made
       ELSE /\ fs' = fs
            /\ wrote' = FALSE
            /\ ret' = 0
    /\ runs' = runs + 1
    /\ first_out' = IF runs = 0 THEN content ELSE first_out
    /\ returns' = Append(returns, ret')
    /\ pc' = "returned"
    /\ UNCHANGED <<caller, file_path, content, original_content, changes_made,
                   import_line, ri, mainVars, fs0, inserted, after_import, processed>>

\* ------------------------------------------------------------ main
\* lines 105-107: the next path exists, call process_file
MainCall ==
    /\ caller = "main" /\ pc = "idle" /\ idx <= Len(files_to_process)
    /\ files_to_process[idx] \in DOMAIN fs
    /\ file_path' = files_to_process[idx]
    /\ pc' = "open"
    /\ UNCHANGED <<fs, caller, content, original_content, changes_made, import_line,
                   ri, ret, mainVars, fs0, runs, callHistory, processed, returns>>

\* line 108: total_changes += changes
MainAccumulate ==
    /\ caller = "main" /\ pc = "returned"
    /\ total_changes' = total_changes + ret
    /\ idx' = idx + 1
    /\ pc' = "idle"
    /\ UNCHANGED <<fs, caller, locals, summary, not_found, fs0, runs, callHistory,
                   processed, returns>>

\* a missing path ends the run
MainNotFoundAborts ==
    /\ caller = "main" /\ pc = "idle" /\ idx <= Len(files_to_process)
    /\ files_to_process[idx] \notin DOMAIN fs
    /\ not_found' = Append(not_found, files_to_process[idx])
    /\ pc' = "done"
    /\ UNCHANGED <<fs, caller, locals, idx, total_changes, summary, fs0, runs,
                   callHistory, processed, returns>>

\* lines 109-110: the next path does not exist, report it
MainNotFound ==
    /\ caller = "main" /\ pc = "idle" /\ idx <= Len(files_to_process)
    /\ files_to_process[idx] \notin DOMAIN fs
    /\ not_found' = Append(not_found, files_to_process[idx])
    /\ idx' = idx + 1
    /\ UNCHANGED <<fs, caller, pc, locals, total_changes, summary, fs0, runs,
                   callHistory, processed, returns>>

\* lines 112-113: the summary
MainSummary ==
    /\ caller = "main" /\ pc = "idle" /\ idx > Len(files_to_process)
    /\ summary' = total_changes
    /\ pc' = "done"
    /\ UNCHANGED <<fs, caller, locals, idx, total_changes, not_found, fs0, runs,
                   callHistory, processed, returns>>

\* ------------------------------------------------------------ specifications
Next ==
    \/ DirectCall
    \/ Open
    \/ AddImport
    \/ ApplyRule
    \/ Persist

Spec == Init /\ [][Next]_vars

NextMain ==
    \/ MainCall
    \/ MainNotFound
    \/ MainAccumulate
    \/ MainSummary
    \/ Open
    \/ AddImport
    \/ ApplyRule
    \/ Persist

\* main is one sequential run: a step that can be taken is taken
MainSpec == InitMain /\ [][NextMain]_vars /\ WF_vars(NextMain)
\* ------------------------------------------------------------ properties
Returned == pc = "returned"

Count(t, c) == Cardinality({i \in 1..Len(t) : t[i] = c})
Occurrences(t, sub) == Cardinality({i \in 1..Len(t) : OccursAt(t, sub, i)})
NumLoggerImports(t) == Occurrences(t, ImportHere) + Occurrences(t, ImportUp)

\* the text holds a logger import marker
HasMarker(t) ==
    \E i \in 1..Len(t) :
        \/ OccursAt(t, <<"from", SP, DQ, "./Logger", DQ>>, i)
        \/ OccursAt(t, <<"from", SP, DQ, "../Logger", DQ>>, i)

\* the text holds a match of the import pattern
HasImport(t) == FindSpans(import_pattern, t, 1) # <<>>

\* position i of the text starts a console.log, console.error or console.warn call
ConsoleCallAt(t, i) ==
    /\ i + 2 <= Len(t)
    /\ t[i] = "console" /\ t[i + 1] \in Methods /\ t[i + 2] = LP

HasConsoleCall(t) == \E i \in 1..Len(t) : ConsoleCallAt(t, i)

\* the text after rules from..to, each a global substitution on the one before
RECURSIVE Rewritten(_, _, _)
Rewritten(t, from, to) ==
    IF from > to THEN t ELSE Rewritten(ReSub(patterns[from], t), from + 1, to)

\* the matches of rules from..to, each against the text just before it
RECURSIVE Matches(_, _, _)
Matches(t, from, to) ==
    IF from > to THEN 0
    ELSE ReCount(patterns[from], t) + Matches(ReSub(patterns[from], t), from + 1, to)

RECURSIVE Sum(_)
Sum(seq) == IF seq = <<>> THEN 0 ELSE seq[1] + Sum(Tail(seq))

\* C1: a second run of process_file on the output of the first leaves the text as
\* the first run left it, reports 0 changes and writes nothing.
C1_Idempotent ==
    (Returned /\ runs = 2) => (content = first_out /\ ret = 0 /\ ~ wrote)

\* C2: on a text with no logger import marker and at least one import statement,
\* the import step inserts exactly one import line, right after the last import
\* statement and nowhere else.
C2_OneImportAfterLast ==
    (pc = "rules" /\ ri = 1 /\ ~ HasMarker(original_content) /\ HasImport(original_content)) =>
        LET spans == FindSpans(import_pattern, original_content, 1)
            e     == SpanEnd(spans[Len(spans)])
        IN  content = SubSeq(original_content, 1, e - 1) \o <<NL>> \o import_line
                      \o SubSeq(original_content, e, Len(original_content))

\* C3: a text that holds a logger import marker gets no import line, whatever its
\* path, and over repeated runs a file with a marker keeps it and never gains a
\* logger import.
C3_NeverSecondImport ==
    /\ (pc = "rules" /\ ri = 1 /\ HasMarker(original_content)) =>
          /\ ~ inserted
          /\ content = original_content
    /\ (Returned /\ HasMarker(original_content)) =>
          /\ HasMarker(fs[file_path])
          /\ NumLoggerImports(fs[file_path]) = NumLoggerImports(original_content)
    /\ Returned =>
          \A p \in DOMAIN fs0 :
              HasMarker(fs0[p]) => NumLoggerImports(fs[p]) = NumLoggerImports(fs0[p])

\* a second run on a file whose import the first run added
C3_Witness ==
    /\ Returned /\ runs = 2
    /\ ~ HasMarker(fs0[file_path]) /\ HasMarker(original_content)
    /\ HasConsoleCall(fs0[file_path])

\* C4: after a run the text holds no console.log, console.error or console.warn
\* call.
C4_AllReplaced ==
    Returned => ~ HasConsoleCall(content)

\* C5: process_file writes the file exactly when the final text differs from the
\* original; then it returns the change count, which is at least 1; otherwise it
\* leaves the file as it was and returns 0.
C5_PersistDecision ==
    Returned =>
        /\ wrote <=> (content # original_content)
        /\ (content # original_content) =>
              /\ ret = changes_made /\ ret >= 1
              /\ fs[file_path] = content
        /\ (content = original_content) =>
              /\ ret = 0
              /\ fs[file_path] = original_content
        /\ (ret = 0) <=> (fs[file_path] = original_content)

\* a file written with its import added and a call rewritten
C5_Witness ==
    Returned /\ wrote /\ inserted /\ ret >= 2

\* C6: an inserted import is from "../Logger" for nodes/Function/foo.ts and from
\* "./Logger" for nodes/foo.ts, whatever the text; main's four paths all get
\* "../Logger".
HardcodedPathsUp ==
    \A n \in 1..Len(files_to_process) : import_line_for(files_to_process[n]) = ImportUp

\* checked in the states the import step leaves
C6_ImportPath ==
    (pc = "rules" /\ ri = 1) =>
        /\ inserted =>
              /\ file_path = NodesFunctionFoo => import_line = ImportUp
              /\ file_path = NodesFoo => import_line = ImportHere
              /\ Occurrences(content, import_line) >= 1
              /\ NumLoggerImports(content) = Occurrences(content, import_line)
        /\ HardcodedPathsUp

C6_Witness ==
    pc = "rules" /\ ri = 1 /\ inserted /\ file_path = NodesFoo /\ import_line = ImportHere

\* C7: main visits the four paths in order, reports each missing one without
\* touching it, runs process_file once on each existing one, and always prints
\* the summary, whose total is the sum of what process_file returned.
C7_SummaryRight ==
    pc = "done" =>
        /\ processed = SelectSeq(files_to_process, LAMBDA p : p \in DOMAIN fs0)
        /\ not_found = SelectSeq(files_to_process, LAMBDA p : p \notin DOMAIN fs0)
        /\ DOMAIN fs = DOMAIN fs0
        /\ Len(returns) = Len(processed)
        /\ summary = Sum(returns)

C7_MainCompletes ==
    /\ <>(pc = "done")
    /\ [] C7_SummaryRight

\* a run with a missing file between two that exist and change
C7_Witness ==
    /\ pc = "done" /\ summary >= 3
    /\ processed = <<FunctionNode, ReturnFromFunctionNode, ConfigureFunctionsNode>>
    /\ not_found = <<CallFunctionNode>>

\* C8: the change count is the sum over the rules, in order, of the matches of
\* each rule against the text just before it, plus 1 if the import was added; it
\* is the number of console calls rewritten plus the import flag.
C8_ChangeCount ==
    Returned =>
        LET flag == IF inserted THEN 1 ELSE 0 IN
        /\ content = Rewritten(after_import, 1, Len(patterns))
        /\ changes_made = Matches(after_import, 1, Len(patterns)) + flag
        /\ changes_made = Count(after_import, "console") - Count(content, "console") + flag
        /\ ret = changes_made

\* the import added after each of two equal import statements, and counted once
C8_Witness ==
    Returned /\ inserted /\ NumLoggerImports(content) = 2 /\ changes_made = 1

\* C9: a text with no import statement gets no import line, also when its console
\* calls are rewritten; with no console call either, the output is the input, the
\* count is 0 and nothing is written.
C9_NoImportStatement ==
    (Returned /\ ~ HasImport(original_content)) =>
        /\ ~ inserted
        /\ after_import = original_content
        /\ NumLoggerImports(content) = NumLoggerImports(original_content)
        /\ changes_made = Matches(original_content, 1, Len(patterns))
        /\ ~ HasConsoleCall(original_content) =>
              /\ content = original_content
              /\ ret = 0 /\ ~ wrote /\ fs[file_path] = original_content

\* calls rewritten in a text with no import statement
C9_Witness ==
    /\ Returned /\ ~ HasImport(original_content)
    /\ HasConsoleCall(original_content) /\ content # original_content /\ ret >= 1

\* C10: the rules change nothing but the callee of a matched call: the text after
\* them is the text before them with some "console" of a console.log/error/warn
\* call replaced by "logger".
OnlyCallee(before, after) ==
    /\ Len(after) = Len(before)
    /\ \A i \in 1..Len(before) :
          \/ after[i] = before[i]
          \/ ConsoleCallAt(before, i) /\ after[i] = "logger"

C10_ArgumentsKept ==
    /\ pc \in {"rules", "persist", "returned"} => OnlyCallee(after_import, content)
    /\ (Returned /\ original_content = <<"console", ".log", LP, DQ, "x", DQ, RP>>) =>
          content = <<"logger", ".log", LP, DQ, "x", DQ, RP>>
    /\ (Returned /\ original_content = <<"console", ".error", LP, BT, "x", BT, RP>>) =>
          content = <<"logger", ".error", LP, BT, "x", BT, RP>>

\* a template literal with more arguments after it, kept as they were
C10_Witness ==
    /\ Returned
    /\ original_content = <<"console", ".error", LP, BT, "x", BT, "x", RP>>
    /\ content = <<"logger", ".error", LP, BT, "x", BT, "x", RP>>

=============================================================================
